---- MODULE Spec2Model ----
(***************************************************************************)
(* Incremental hourly weather pipeline (src/main.py) together with the     *)
(* geocode bootstrap that writes its entity list (src/initial-data.py).    *)
(*                                                                         *)
(* Date-times are minutes since 2021-01-01 00:00:00.  A DataFrame row is   *)
(* [city, time]; the four measurement columns (temp, rhum, prcp, wspd) are *)
(* carried along with the row untouched by every operation modelled here.  *)
(***************************************************************************)
EXTENDS Integers, Sequences, FiniteSets, TLC

\* Latest hour the wall clock and the provider's coverage range over.
MaxHour == 2
\* Rows of the weather_data.parquet file found at the start.
MaxInitRows == 1
\* Rows of a store handed to a single function.
MaxFnRows == 3
\* Elements of a cities_geocode.json list the bootstrap is started on.
MaxGeoItems == 0

\* timedelta(hours=1), in minutes
Hour == 60
\* datetime(2021,1,1), the default start
DefaultEpoch == 0
\* start = datetime(2021, 1, 1, 20), the bootstrap's first hour
BackfillStart == 20 * Hour
\* end = datetime(2024, 11, 15), the bootstrap's last hour
BackfillEnd == 2036160

\* The head of the list of cities the bootstrap geocodes.
triangulo_mineiro == <<"Uberlandia", "Uberaba">>

\* local = f"{city_name}, {country_name}"
Local(country_name, city_name) == <<city_name, country_name>>

\* What the geocoding service answers for a place it finds.
Nominatim_geocode(local) ==
    IF local[1] = "Uberlandia" THEN [latitude |-> -19, longitude |-> -48]
                               ELSE [latitude |-> -20, longitude |-> -47]

Names == {Local("Brasil", triangulo_mineiro[i]) : i \in 1..Len(triangulo_mineiro)}

\* One element of the geocode file: a name with its coordinates.
GeoItem(local, loc) ==
    [name |-> local, latitude |-> loc.latitude, longitude |-> loc.longitude]

---------------------------------------------------------------------------
\* Values a Python variable holding "a DataFrame" takes in main.py.
Frame(rows)    == [kind |-> "frame", rows |-> rows]
\* pd.DataFrame, the class itself
DataFrameClass == [kind |-> "class", rows |-> <<>>]
\* None, what a function returns when it falls off its end
NoneValue      == [kind |-> "None", rows |-> <<>>]
Unset          == [kind |-> "unset", rows |-> <<>>]

\* Contents of weather_data.parquet and of cities_geocode.json.
Table(rows)    == [kind |-> "table", rows |-> rows]
Unreadable     == [kind |-> "unreadable", rows |-> <<>>]
\* (Unreadable: no file, or a file that is not a parquet table.)
JsonList(items) == [kind |-> "list", items |-> items]
JsonDict(items) == [kind |-> "dict", items |-> items]
\* no file: FileNotFoundError
NoJson          == [kind |-> "missing", items |-> <<>>]
\* text that is not JSON: JSONDecodeError
CorruptJson     == [kind |-> "corrupt", items |-> <<>>]
\* bytes that are not UTF-8 text: UnicodeDecodeError
UndecodableJson == [kind |-> "undecodable", items |-> <<>>]
\* a directory at the path: IsADirectoryError
DirectoryJson   == [kind |-> "directory", items |-> <<>>]
\* a JSON value without len(): null, a number, true, false
NullJson        == [kind |-> "null", items |-> <<>>]
\* a JSON string: has len(), has neither .items() nor .append()
StringJson      == [kind |-> "string", items |-> <<>>]
\* a name main() or the bootstrap has not assigned (yet)
Unbound         == [kind |-> "unbound", items |-> <<>>]
NoPoint         == [called |-> FALSE, latitude |-> 0, longitude |-> 0]

VARIABLES
    clock,                  \* datetime.now()
    provider,               \* the weather provider: [down, until]
    geo_file,               \* cities_geocode.json
    parquet_file,           \* weather_data.parquet
    pc,                     \* where main() is: idle, loop, done, crashed
    raised,                 \* the exception that left main(), or "none"
    parquet_weather_data,   \* main's in-memory store
    cities_infos,           \* main's loaded geocode JSON
    idx,                    \* position of main's loop in cities_infos
    start_datetime,         \* the last fetch's window start
    end_datetime,           \* the last fetch's window end
    point,                  \* the last fetch's request to the provider, if any
    meteostat_data_by_city, \* the last fetch's return value
    quiet,                  \* no clock or provider change since main() began
    repeat,                 \* this run repeats a completed run, nothing changed
    boot_pc,                \* where initial-data.py's main() is: off, geocode,
                            \* read, fetch
    boot_i,                 \* position of the bootstrap's current loop
    cities_geocode,         \* the bootstrap's loaded geocode JSON
    df_weather_data,        \* the bootstrap's gathered rows
    fn_pc, fn_store, fn_delta, fn_city, fn_result   \* calls of single functions

envVars  == <<clock, provider>>
fileVars == <<geo_file, parquet_file>>
mainVars == <<pc, raised, parquet_weather_data, cities_infos, idx>>
fetchVars == <<start_datetime, end_datetime, point, meteostat_data_by_city>>
obsVars  == <<quiet, repeat>>
bootVars == <<boot_pc, boot_i, cities_geocode, df_weather_data>>
fnVars   == <<fn_pc, fn_store, fn_delta, fn_city, fn_result>>
vars == <<clock, provider, geo_file, parquet_file, pc, raised,
          parquet_weather_data, cities_infos, idx, start_datetime,
          end_datetime, point, meteostat_data_by_city, quiet, repeat,
          boot_pc, boot_i, cities_geocode, df_weather_data,
          fn_pc, fn_store, fn_delta, fn_city, fn_result>>

---------------------------------------------------------------------------
\* Date-time arithmetic and formatting.

\* end_datetime.replace(minute=0, second=0, microsecond=0)
Truncate(t) == t - (t % Hour)

\* str(Timestamp): the fields of "YYYY-mm-dd HH:MM:SS" (date as a day number)
StrTimestamp(t) == <<t \div (24 * Hour), (t % (24 * Hour)) \div Hour, t % Hour, 0>>

\* datetime.strptime(s, "%Y-%m-%d %H:%M:%S")
Strptime(s) == s[1] * (24 * Hour) + s[2] * Hour + s[3]

\* Series.max() over the 'time' column of a non-empty selection
RECURSIVE SeriesMax(_)
SeriesMax(rows) ==
    IF Len(rows) = 1 THEN rows[1].time
    ELSE LET m == SeriesMax(Tail(rows))
         IN IF rows[1].time > m THEN rows[1].time ELSE m

\* df.empty as main.py tests it; on the class it is a property object, truthy
Empty(df) == IF df.kind = "class" THEN TRUE ELSE Len(df.rows) = 0

---------------------------------------------------------------------------
\* main.py's functions.

load_parquet_weather_data(file) ==
    IF file.kind = "table" THEN Frame(file.rows) ELSE DataFrameClass

\* the resolver without its filter on the city
get_last_datetime_any_city(df, city_name) ==
    IF df.kind # "frame"
    THEN [raised |-> "TypeError_subscript", value |-> DefaultEpoch]
    ELSE IF Len(df.rows) > 0
         THEN [raised |-> "none", value |-> Strptime(StrTimestamp(SeriesMax(df.rows)))]
         ELSE [raised |-> "none", value |-> DefaultEpoch]

get_last_datetime_by_city(df, city_name) ==
    IF df.kind # "frame"
    THEN [raised |-> "TypeError_subscript", value |-> DefaultEpoch]
    ELSE LET city_weather_data == SelectSeq(df.rows, LAMBDA r : r.city = city_name)
         IN IF Len(city_weather_data) > 0
            THEN [raised |-> "none",
                  value |-> Strptime(StrTimestamp(SeriesMax(city_weather_data)))]
            ELSE [raised |-> "none", value |-> DefaultEpoch]

load_cities_info_from_json(file) ==
    IF file.kind = "missing"
    THEN [raised |-> "FileNotFoundError", value |-> Unbound]
    ELSE IF file.kind = "corrupt"
    THEN [raised |-> "JSONDecodeError", value |-> Unbound]
    ELSE IF file.kind = "undecodable"
    THEN [raised |-> "UnicodeDecodeError", value |-> Unbound]
    ELSE IF file.kind = "directory"
    THEN [raised |-> "IsADirectoryError", value |-> Unbound]
    ELSE IF file.kind = "null"
    THEN \* len(cities_geocode) inside the try, re-raised
         [raised |-> "TypeError_len", value |-> Unbound]
    ELSE [raised |-> "none", value |-> file]

\* Hourly(point, start, end).fetch(): the hours of [start, end] the provider covers
RECURSIVE Hourly(_, _, _)
Hourly(start, end, until) ==
    IF start > end \/ start > until THEN <<>>
    ELSE <<start>> \o Hourly(start + Hour, end, until)

\* the window start without the added hour
WindowStartAtWatermark(last_datetime) == last_datetime

\* start_datetime + timedelta(hours=1)
WindowStart(last_datetime) == last_datetime + Hour

\* the guard of the fetch
HasWindow(start, end) == ~(start = end)

\* the value returned when the provider call raises
OnProviderError == Frame(<<>>)

\* the value returned when no fetch was attempted
NoWindowResult == NoneValue

fetch_hourly_data_from_meteostat_by_city(start_dt, end_dt, city_name, latitude, longitude) ==
    LET end   == Truncate(end_dt)
        start == WindowStart(start_dt)
    IN IF HasWindow(start, end)
       THEN LET pt   == [called |-> TRUE, latitude |-> latitude, longitude |-> longitude]
                data == Hourly(start, end, provider.until)
            IN [start |-> start, end |-> end, point |-> pt,
                result |-> IF provider.down THEN OnProviderError
                           ELSE Frame([i \in 1..Len(data) |->
                                         [city |-> city_name, time |-> data[i]]])]
       ELSE [start |-> start, end |-> end, point |-> NoPoint, result |-> NoWindowResult]

\* the concatenation with its operands swapped
concat_weather_data_swapped(mdc, pwd) ==
    IF ~Empty(mdc)
    THEN IF Empty(pwd) THEN mdc ELSE Frame(mdc.rows \o pwd.rows)
    ELSE pwd

concat_weather_data_by_city(mdc, pwd) ==
    IF ~Empty(mdc)
    THEN IF Empty(pwd) THEN mdc ELSE Frame(pwd.rows \o mdc.rows)
    ELSE pwd

\* What to_parquet can do with the file it overwrites in place: write it
\* whole; raise before it opened the file; raise after it truncated it.
SaveOutcomes == {"written", "refused", "torn"}

save_concatenated_data_to_parquet(pwd, file, outcome) ==
    IF outcome = "written"
    THEN [raised |-> "none", file |-> Table(pwd.rows)]
    ELSE IF outcome = "refused"
    THEN [raised |-> "to_parquet_error", file |-> file]
    ELSE \* a parquet file cut short has no footer and cannot be read
         [raised |-> "to_parquet_error", file |-> Unreadable]

---------------------------------------------------------------------------
\* Bounded inputs.

\* The clock runs from the hour before the bootstrap's first hour.
FirstHour == BackfillStart - Hour
LastHour  == FirstHour + MaxHour * Hour
ClockValues == {FirstHour + h * Hour + m : h \in 0..MaxHour, m \in {0, 30}}
\* The provider covers every hour up to 'until': nothing after the epoch,
\* or up to some hour the clock ranges over.
ProviderUntils == {DefaultEpoch} \cup {FirstHour + h * Hour : h \in 0..MaxHour}
ProviderStates == [down : BOOLEAN, until : ProviderUntils]
InitRowSet == [city : Names, time : {BackfillStart}]

RECURSIVE SeqsUpTo(_, _)
SeqsUpTo(S, n) ==
    IF n = 0 THEN {<<>>}
    ELSE LET shorter == SeqsUpTo(S, n - 1)
         IN shorter \cup {Append(s, x) : s \in shorter, x \in S}

NoDuplicates(rows) ==
    Cardinality({rows[i] : i \in 1..Len(rows)}) = Len(rows)

InitTables == {s \in SeqsUpTo(InitRowSet, MaxInitRows) : NoDuplicates(s)}

\* Geocode files in the form main() iterates with .items(): one object, keys unique
InitDicts ==
    {s \in SeqsUpTo({GeoItem(n, Nominatim_geocode(n)) : n \in Names}, Len(triangulo_mineiro)) :
        NoDuplicates(s)}

---------------------------------------------------------------------------
FnIdle ==
    /\ fn_pc = "off" /\ fn_store = Unset /\ fn_delta = Unset
    /\ fn_city = <<>> /\ fn_result = Unset

Init ==
    /\ clock \in ClockValues
    /\ provider \in ProviderStates
    /\ geo_file \in {NoJson, CorruptJson, UndecodableJson, DirectoryJson,
                      NullJson, StringJson}
                      \cup {JsonDict(s) : s \in InitDicts}
    /\ parquet_file \in {Unreadable} \cup {Table(s) : s \in InitTables}
    /\ pc = "idle" /\ raised = "none"
    /\ parquet_weather_data = Unset
    /\ cities_infos = Unbound
    /\ idx = 0
    /\ boot_pc = "off" /\ boot_i = 0
    /\ cities_geocode = Unbound /\ df_weather_data = Unset
    /\ start_datetime = 0 /\ end_datetime = 0 /\ point = NoPoint
    /\ meteostat_data_by_city = Unset
    /\ quiet = FALSE /\ repeat = FALSE
    /\ FnIdle

\* Time passes, or the provider's coverage or reachability changes.
Advance ==
    /\ \/ /\ clock + 30 \in ClockValues
          /\ clock' = clock + 30
          /\ UNCHANGED provider
       \/ /\ provider.until < LastHour
          /\ provider' = [provider EXCEPT !.until =
                             IF @ < FirstHour THEN FirstHour ELSE @ + Hour]
          /\ UNCHANGED clock
       \/ /\ provider' = [provider EXCEPT !.down = ~@]
          /\ UNCHANGED clock
    /\ quiet' = FALSE /\ repeat' = FALSE
    /\ UNCHANGED <<fileVars, mainVars, fetchVars, bootVars, fnVars>>

\* initial-data.py: get_geolocation(country_name, city_name), given what the
\* geocoder does: the file afterwards, and whether the call raised
get_geolocation(file, country_name, city_name, outcome) ==
    LET local == Local(country_name, city_name)
        data  == GeoItem(local, Nominatim_geocode(local))
    IN IF outcome = "raises"
       THEN [raised |-> TRUE, file |-> file]
       ELSE IF outcome = "not_found"
       THEN [raised |-> FALSE, file |-> file]
       ELSE IF file.kind \in {"missing", "corrupt"}
       THEN \* FileNotFoundError, JSONDecodeError: all_data = []
            [raised |-> FALSE, file |-> JsonList(<<data>>)]
       ELSE IF file.kind = "list"
       THEN [raised |-> FALSE, file |-> JsonList(Append(file.items, data))]
       ELSE \* any other error of open/json.load is not caught; all_data.append
            \* on an object, a string or null raises AttributeError
            [raised |-> TRUE, file |-> file]

\* initial-data.py main(): what one pass of the loop over cities_geocode adds
\* to df_weather_data, the provider answering the hours up to 'until'
BackfillCity(df, city, until) ==
    LET data == Hourly(BackfillStart, BackfillEnd, until)
        rows == [i \in 1..Len(data) |-> [city |-> city.name, time |-> data[i]]]
    IN IF Len(data) = 0 THEN df
       ELSE IF Empty(df) THEN Frame(rows)
       ELSE Frame(df.rows \o rows)

BootOff ==
    /\ boot_pc' = "off" /\ boot_i' = 0
    /\ cities_geocode' = Unbound /\ df_weather_data' = Unset

\* initial-data.py main(): one pass of the loop over triangulo_mineiro, a
\* call of get_geolocation; the script then sleeps.  A step is taken when
\* the geocoder has answered.
geocode_city ==
    /\ boot_pc \in {"off", "geocode"}
    /\ (boot_pc = "off" /\ geo_file.kind = "list") => Len(geo_file.items) <= MaxGeoItems
    /\ LET i == IF boot_pc = "off" THEN 1 ELSE boot_i
       IN \E outcome \in {"found", "not_found", "raises"} :
             LET r == get_geolocation(geo_file, "Brasil", triangulo_mineiro[i], outcome)
             IN /\ geo_file' = r.file
                /\ IF r.raised THEN BootOff
                   ELSE /\ boot_pc' = IF i < Len(triangulo_mineiro) THEN "geocode" ELSE "read"
                        /\ boot_i' = IF i < Len(triangulo_mineiro) THEN i + 1 ELSE 0
                        /\ UNCHANGED <<cities_geocode, df_weather_data>>
    /\ quiet' = (quiet /\ geo_file' = geo_file)
    /\ repeat' = (repeat /\ geo_file' = geo_file)
    /\ UNCHANGED <<envVars, parquet_file, mainVars, fetchVars, fnVars>>

\* initial-data.py main(): one pass of the loop over cities_geocode, a
\* request to the provider; before the first one the geocode file is read,
\* after the last one the gathered rows are written.  A step is taken when
\* the provider has answered.
backfill_city ==
    /\ boot_pc \in {"read", "fetch"}
    /\ LET cities == IF boot_pc = "read" THEN geo_file ELSE cities_geocode
           df     == IF boot_pc = "read" THEN DataFrameClass ELSE df_weather_data
           i      == IF boot_pc = "read" THEN 1 ELSE boot_i
       IN IF cities.kind # "list" \/ Len(cities.items) = 0 \/ provider.down
          THEN \* open/json.load raises; iterating null raises; an object's
               \* keys and a string's characters are strings without
               \* .items(); with nothing to iterate to_parquet is called on
               \* the class pd.DataFrame; Hourly raises
               /\ BootOff
               /\ UNCHANGED parquet_file
          ELSE LET gathered == BackfillCity(df, cities.items[i], provider.until)
               IN IF i < Len(cities.items)
                  THEN /\ boot_pc' = "fetch" /\ boot_i' = i + 1
                       /\ cities_geocode' = cities
                       /\ df_weather_data' = gathered
                       /\ UNCHANGED parquet_file
                  ELSE /\ BootOff
                       /\ parquet_file' = IF gathered.kind = "frame"
                                          THEN Table(gathered.rows)
                                          ELSE parquet_file
    /\ quiet' = (quiet /\ parquet_file' = parquet_file)
    /\ repeat' = (repeat /\ parquet_file' = parquet_file)
    /\ UNCHANGED <<envVars, geo_file, mainVars, fetchVars, fnVars>>

\* main(): from 'Start pipeline' to the head of the for loop
StartRun ==
    /\ pc \in {"idle", "done", "crashed"}
    /\ parquet_weather_data' = load_parquet_weather_data(parquet_file)
    /\ LET loaded == load_cities_info_from_json(geo_file)
       IN IF loaded.raised # "none"
          THEN /\ pc' = "crashed" /\ raised' = loaded.raised
               /\ cities_infos' = loaded.value /\ idx' = 0
          ELSE IF loaded.value.kind \in {"list", "string"}
          THEN \* cities_infos.items() on a list or on a str
               /\ pc' = "crashed" /\ raised' = "AttributeError_items"
               /\ cities_infos' = loaded.value /\ idx' = 0
          ELSE /\ pc' = "loop" /\ raised' = "none"
               /\ cities_infos' = loaded.value /\ idx' = 1
    /\ start_datetime' = 0 /\ end_datetime' = 0 /\ point' = NoPoint
    /\ meteostat_data_by_city' = Unset
    /\ repeat' = (pc = "done" /\ quiet)
    /\ quiet' = TRUE
    /\ UNCHANGED <<envVars, fileVars, bootVars, fnVars>>

\* main(): one iteration of the for loop
Iterate ==
    /\ pc = "loop"
    /\ idx <= Len(cities_infos.items)
    /\ LET infos == cities_infos.items[idx]
           last  == get_last_datetime_by_city(parquet_weather_data, infos.name)
           f     == fetch_hourly_data_from_meteostat_by_city(
                        last.value, clock, infos.name, infos.latitude, infos.longitude)
           merged == concat_weather_data_by_city(f.result, parquet_weather_data)
       IN IF last.raised # "none"
          THEN /\ pc' = "crashed" /\ raised' = last.raised
               /\ UNCHANGED <<idx, parquet_weather_data, parquet_file, fetchVars>>
          ELSE /\ start_datetime' = f.start /\ end_datetime' = f.end
               /\ point' = f.point
               /\ meteostat_data_by_city' = f.result
               /\ IF f.result.kind = "None"
                  THEN \* None.empty
                       /\ pc' = "crashed" /\ raised' = "AttributeError_empty"
                       /\ UNCHANGED <<idx, parquet_weather_data, parquet_file>>
                  ELSE IF Empty(f.result)
                  THEN /\ idx' = idx + 1
                       /\ UNCHANGED <<pc, raised, parquet_weather_data, parquet_file>>
                  ELSE \/ \* pd.concat raises: logged and re-raised
                          /\ pc' = "crashed" /\ raised' = "concat_error"
                          /\ UNCHANGED <<idx, parquet_weather_data, parquet_file>>
                       \/ \E outcome \in SaveOutcomes :
                            LET saved == save_concatenated_data_to_parquet(
                                             merged, parquet_file, outcome)
                            IN /\ parquet_weather_data' = merged
                               /\ parquet_file' = saved.file
                               /\ IF saved.raised # "none"
                                  THEN /\ pc' = "crashed" /\ raised' = saved.raised
                                       /\ UNCHANGED idx
                                  ELSE /\ idx' = idx + 1
                                       /\ UNCHANGED <<pc, raised>>
    /\ UNCHANGED <<envVars, geo_file, cities_infos, obsVars, bootVars, fnVars>>

\* main(): 'End pipeline', and the process ends with its locals
EndRun ==
    /\ pc = "loop"
    /\ idx > Len(cities_infos.items)
    /\ pc' = "done"
    /\ parquet_weather_data' = Unset /\ cities_infos' = Unbound /\ idx' = 0
    /\ start_datetime' = 0 /\ end_datetime' = 0 /\ point' = NoPoint
    /\ meteostat_data_by_city' = Unset
    /\ UNCHANGED <<envVars, fileVars, raised, obsVars, bootVars, fnVars>>

Next == Advance \/ geocode_city \/ backfill_city \/ StartRun \/ Iterate \/ EndRun

Spec == Init /\ [][Next]_vars

---------------------------------------------------------------------------
\* Single functions applied to bounded inputs.

FnRowSet == [city : Names, time : {0, Hour, 25 * Hour}]
FnStores == SeqsUpTo(FnRowSet, MaxFnRows)
FnDeltas == SeqsUpTo(FnRowSet, 2)

InitFn ==
    /\ clock = 0
    /\ provider = [down |-> FALSE, until |-> 0]
    /\ geo_file = NoJson
    /\ parquet_file = Unreadable
    /\ pc = "idle" /\ raised = "none"
    /\ parquet_weather_data = Unset
    /\ cities_infos = Unbound
    /\ idx = 0
    /\ boot_pc = "off" /\ boot_i = 0
    /\ cities_geocode = Unbound /\ df_weather_data = Unset
    /\ start_datetime = 0 /\ end_datetime = 0 /\ point = NoPoint
    /\ meteostat_data_by_city = Unset
    /\ quiet = FALSE /\ repeat = FALSE
    /\ fn_pc = "ready"
    /\ fn_store \in {Frame(s) : s \in FnStores}
    /\ fn_delta \in {Frame(s) : s \in FnDeltas}
    /\ fn_city \in Names
    /\ fn_result = Unset

CallResolve ==
    /\ fn_pc = "ready"
    /\ fn_result' = get_last_datetime_by_city(fn_store, fn_city)
    /\ fn_pc' = "resolved"
    /\ UNCHANGED <<envVars, fileVars, mainVars, fetchVars, obsVars, bootVars,
                   fn_store, fn_delta, fn_city>>

CallConcat ==
    /\ fn_pc = "ready"
    /\ fn_result' = concat_weather_data_by_city(fn_delta, fn_store)
    /\ fn_pc' = "merged"
    /\ UNCHANGED <<envVars, fileVars, mainVars, fetchVars, obsVars, bootVars,
                   fn_store, fn_delta, fn_city>>

NextFn == CallResolve \/ CallConcat

SpecFn == InitFn /\ [][NextFn]_vars

---------------------------------------------------------------------------
\* Properties.

RowsOf(rows, name) == SelectSeq(rows, LAMBDA r : r.city = name)
Fetched == meteostat_data_by_city.kind # "unset"
\* a step of main.py: the clock, the provider and the bootstrap stand still
MainStep == UNCHANGED <<envVars, bootVars, geo_file>>

\* C1: whenever the window start lies one hour after the window end (now
\* truncated to the hour equals the watermark), the fetch returns an empty
\* frame and the provider is not invoked.
C1_NoProviderCallAtWatermark ==
    (Fetched /\ start_datetime = end_datetime + Hour)
        => (~point.called /\ meteostat_data_by_city = Frame(<<>>))

\* C2: whenever the window start equals the window end, the fetch returns an
\* empty frame without invoking the provider, and main is not aborted.
C2_EmptyResultWhenNoWindow ==
    (Fetched /\ start_datetime = end_datetime)
        => (/\ meteostat_data_by_city = Frame(<<>>)
            /\ ~point.called
            /\ raised = "none")

\* C3: in a run that repeats a completed run with the clock and the provider
\* unchanged, every fetch returns an empty frame and the run is not aborted.
C3_RepeatedRunFetchesNothing ==
    repeat => (/\ raised = "none"
               /\ meteostat_data_by_city.kind \in {"unset", "frame"}
               /\ Len(meteostat_data_by_city.rows) = 0)

\* C4: a run whose store file could not be read is not aborted by the
\* resolver: the loaded value is a store the resolver can filter.
C4_UnreadableStoreDoesNotAbort == raised # "TypeError_subscript"

\* C9: a run over a geocode file written by the bootstrap (a JSON list of
\* single-key objects) is not aborted at the head of the loop over its
\* entities.
C9_BootstrapFileIsIterated ==
    (cities_infos.kind = "list" /\ Len(cities_infos.items) > 0)
        => raised # "AttributeError_items"

\* C5: an iteration whose fetch reached the provider and brought no rows
\* (provider error or empty answer) leaves main in its loop at the next
\* entity, nothing raised, store and file untouched, the fetch's value an
\* empty frame; and a run in which every fetch so far failed at the
\* provider (the provider is down since the run began) is not aborted at a
\* later entity.
C5_FetchFailureIsLocal ==
    /\ [][(/\ pc = "loop"
           /\ idx <= Len(cities_infos.items)
           /\ (idx' # idx \/ pc' # pc)
           /\ point'.called
           /\ Len(meteostat_data_by_city'.rows) = 0)
          => (/\ pc' = "loop"
              /\ raised' = "none"
              /\ idx' = idx + 1
              /\ meteostat_data_by_city' = Frame(<<>>)
              /\ parquet_weather_data' = parquet_weather_data
              /\ parquet_file' = parquet_file)]_vars
    /\ []((quiet /\ provider.down /\ idx >= 2) => raised = "none")

\* C6: for a store S and a non-empty delta D the merge has len(S) + len(D)
\* rows, the first len(S) being S in order and the last len(D) being D in
\* order, S empty included.
C6_AppendOnly ==
    (fn_pc = "merged" /\ Len(fn_delta.rows) > 0)
        => (/\ fn_result.kind = "frame"
            /\ Len(fn_result.rows) = Len(fn_store.rows) + Len(fn_delta.rows)
            /\ \A i \in 1..Len(fn_store.rows) : fn_result.rows[i] = fn_store.rows[i]
            /\ \A j \in 1..Len(fn_delta.rows) :
                  fn_result.rows[Len(fn_store.rows) + j] = fn_delta.rows[j])

\* C6 witness: a merge of a non-empty delta into a non-empty store that
\* begins with a different row.
C6_Witness ==
    /\ fn_pc = "merged"
    /\ Len(fn_store.rows) > 0 /\ Len(fn_delta.rows) > 0
    /\ fn_store.rows[1] # fn_delta.rows[1]

\* C7: every iteration of main that merged a delta and went on leaves on
\* disk exactly the store main then holds, which is the store it held
\* before followed by the delta; and every other step of main inside the
\* loop, an abort at the entity in progress included, leaves the file as it
\* was.  So the file holds every delta merged for the entities before the
\* one in progress, whatever happens at that one.
C7_FileHoldsMergedDeltas ==
    /\ [][(/\ MainStep /\ pc = "loop"
           /\ idx' = idx + 1
           /\ Len(meteostat_data_by_city'.rows) > 0)
          => (/\ parquet_weather_data'.rows =
                    parquet_weather_data.rows \o meteostat_data_by_city'.rows
              /\ parquet_file' = Table(parquet_weather_data'.rows))]_vars
    /\ [][(/\ MainStep /\ pc = "loop"
           /\ ~(idx' = idx + 1 /\ Len(meteostat_data_by_city'.rows) > 0))
          => parquet_file' = parquet_file]_vars

\* C8: the resolver returns the greatest time among the store's rows of the
\* named city, whatever the other cities' rows, and the default epoch when
\* the city has no row.
C8_Watermark ==
    fn_pc = "resolved"
        => LET ts == {fn_store.rows[i].time : i \in
                        {k \in 1..Len(fn_store.rows) : fn_store.rows[k].city = fn_city}}
           IN /\ fn_result.raised = "none"
              /\ IF ts = {} THEN fn_result.value = DefaultEpoch
                 ELSE /\ fn_result.value \in ts
                      /\ \A t \in ts : t <= fn_result.value

\* C8 witness: the city's greatest time is not in its last row, and another
\* city has a later row.
C8_Witness ==
    /\ fn_pc = "resolved"
    /\ Len(RowsOf(fn_store.rows, fn_city)) >= 2
    /\ fn_result.value > RowsOf(fn_store.rows, fn_city)[Len(RowsOf(fn_store.rows, fn_city))].time
    /\ \E i \in 1..Len(fn_store.rows) :
          fn_store.rows[i].city # fn_city /\ fn_store.rows[i].time > fn_result.value

\* C10: main never brings in a second row with the same city and time: a
\* step of main from a store without such a pair (the file, when the step
\* loads it) leaves the store without one, and what it writes has none.
C10_NoOverlap ==
    [][(/\ MainStep
        /\ IF pc = "loop" THEN NoDuplicates(parquet_weather_data.rows)
                          ELSE NoDuplicates(parquet_file.rows))
       => (/\ NoDuplicates(parquet_weather_data'.rows)
           /\ parquet_file' # parquet_file => NoDuplicates(parquet_file'.rows))]_vars

\* C10 witness: a later run has merged new rows for a city whose rows from
\* an earlier run (hours before the bootstrap's first hour) are in the store.
C10_Witness ==
    /\ pc = "loop" /\ idx >= 2
    /\ Len(meteostat_data_by_city.rows) > 0
    /\ meteostat_data_by_city.rows[1].time >= BackfillStart
    /\ \E i \in 1..Len(parquet_weather_data.rows) :
          /\ parquet_weather_data.rows[i].city = meteostat_data_by_city.rows[1].city
          /\ parquet_weather_data.rows[i].time < BackfillStart

====
